---- MODULE Spec2Model ----
(***************************************************************************)
(* A model of asuntovahti: the Oikotie client (client.py), one scope of    *)
(* it as fetch_houses (tasks.py) uses it, its entry normalizer, the sheet  *)
(* wrapper (sheets.py) and the schedule decorator (tasks.py).              *)
(*                                                                         *)
(* Python values are records of one shape, tagged by t, so that None, an   *)
(* int, a list and a string can sit in the same dict.  A string the code   *)
(* builds by concatenation is a sequence of pieces, so that the slices     *)
(* ([:-1]) the code takes act on it as they do on the string.              *)
(***************************************************************************)
EXTENDS Integers, Sequences, FiniteSets, TLC

VARIABLES
    pc,        \* where the caller of the scope stands
    cfg,       \* the keyword arguments of query(), as the config file gives them
    locdb,     \* the provider's location index: name -> number of matches
    session,   \* "none", "open" or "closed": the requests.Session of the scope
    closes,    \* how many times session.close() ran
    headers,   \* OTClient.__headers: header name -> value, or NoHeaders
    requests,  \* every HTTP request issued, in order, with the provider's answer
    offset,    \* params['offset'] of the generator
    n_found,   \* the generator's n_found, -1 while unset
    data,      \* the page the generator is yielding from
    idx,       \* how many cards of data were yielded
    yielded,   \* the entries the consumer received: <<offset, index in page>>
    err,       \* the error that left the scope, "" when none
    assigned,  \* the dict last given to the headers setter
    assigns,   \* how many times the caller assigned c.headers
    sheet,     \* the worksheet: its rows, top to bottom
    ids,       \* SheetWrapper.ids
    wrapper,   \* "none" before SheetWrapper(sheet), "ready" after
    initial,   \* the rows the sheet held when the wrapper was constructed
    calls,     \* the insert() calls so far: the id and what became of it
    now,       \* the event loop's clock, in hours
    timeouts,  \* the deadlines of the timeouts pending on the event loop
    running,   \* how many runs of the wrapped function are in progress
    runs,      \* how the runs that ended did end, in order
    called,    \* the decorated function was called
    entry,     \* a raw entry of data['cards'], as _entry_builder receives it
    record     \* what _entry_builder made of entry: the record, or the error

clientVars == <<pc, cfg, locdb, session, closes, headers, requests, offset, n_found,
                data, idx, yielded, err, assigned, assigns>>
sheetVars == <<sheet, ids, wrapper, initial, calls>>
schedVars == <<now, timeouts, running, runs, called>>
entryVars == <<entry, record>>
vars == <<clientVars, sheetVars, schedVars, entryVars>>

\* ---------------------------------------------------------------- bounds

MaxFound == 3
MaxLimit == 2
MaxMatches == 1
MaxAssign == 2
MaxId == 2
MaxRows == 2
MaxInserts == 3
MaxTime == 10

\* ---------------------------------------------------------- Python values

None == [t |-> "none", n |-> 0, ints |-> <<>>, strs |-> <<>>, names |-> <<>>, toks |-> <<>>]
IntV(n) == [None EXCEPT !.t = "int", !.n = n]
IntList(s) == [None EXCEPT !.t = "ints", !.ints = s]
StrList(s) == [None EXCEPT !.t = "strs", !.strs = s]
NameList(s) == [None EXCEPT !.t = "names", !.names = s]
StrV(toks) == [None EXCEPT !.t = "str", !.toks = toks]
TextV(pieces) == [None EXCEPT !.t = "text", !.strs = pieces]

\* Python's truth value of v: None, 0, the empty list and '' are false.
Truthy(v) ==
    CASE v.t = "none" -> FALSE
      [] v.t = "int" -> v.n # 0
      [] v.t = "ints" -> v.ints # <<>>
      [] v.t = "strs" -> v.strs # <<>>
      [] v.t = "names" -> v.names # <<>>
      [] v.t = "str" -> v.toks # <<>>
      [] v.t = "text" -> v.strs # <<>>

\* isinstance(v, list)
IsList(v) == v.t \in {"ints", "strs", "names"}

\* s[:-1]
DropLast(s) == IF s = <<>> THEN <<>> ELSE SubSeq(s, 1, Len(s) - 1)

RECURSIVE Concat(_)
Concat(ss) == IF ss = <<>> THEN <<>> ELSE Head(ss) \o Concat(Tail(ss))

\* ------------------------------------------------- OTClient.location

\* loc.replace(" ", "+"), a name being the sequence of its words and spaces
ReplaceSpaces(loc) == [i \in DOMAIN loc |-> IF loc[i] = " " THEN "+" ELSE loc[i]]

\* One piece of the string location() builds: a bracket, a comma, or
\* '[cardId,cardType,"name"]' (info, lines 111-112).
Mark(c) == [c |-> c, cardId |-> 0, cardType |-> 0, name |-> <<>>]
Info(card, loc) ==
    [c |-> "elem", cardId |-> card.cardId, cardType |-> card.cardType,
     name |-> ReplaceSpaces(loc)]

\* entry['card'] of the j-th match the provider returns for a name
ProviderCard(j) == [cardId |-> j, cardType |-> 4]

\* The inner loop, lines 109-113: the matches of one answer appended to results.
RECURSIVE AppendMatches(_, _, _, _)
AppendMatches(results, loc, n, j) ==
    IF j > n THEN results
    ELSE AppendMatches(results \o <<Info(ProviderCard(j), loc), Mark(",")>>, loc, n, j + 1)

\* The loop of lines 104-113 from the i-th name on.  ans[i] is the provider's
\* answer to the lookup of locations[i]: its number of matches, or -1 when the
\* request fails.  asked: how many lookups were issued.
RECURSIVE LocationLoop(_, _, _, _)
LocationLoop(locations, ans, i, results) ==
    IF i > Len(locations) THEN [failed |-> FALSE, asked |-> i - 1, results |-> results]
    ELSE IF ans[i] < 0 THEN [failed |-> TRUE, asked |-> i, results |-> results]
    ELSE LocationLoop(locations, ans, i + 1,
                      AppendMatches(results, locations[i], ans[i], 1))

\* lines 115-116: results = results[:-1]; results += ']'
CloseResults(results) == DropLast(results) \o <<Mark("]")>>

location(locations, ans) ==
    LET r == LocationLoop(locations, ans, 1, <<Mark("[")>>)
    IN  [failed |-> r.failed, asked |-> r.asked,
         results |-> IF r.failed THEN <<>> ELSE CloseResults(r.results)]

\* ------------------------------------------- OTClient._params_builder

ParamKeys ==
    <<"locations", "house_type", "room_count", "price_min", "price_max",
      "size_min", "size_max", "limit", "cardType", "offset", "sortBy">>

\* param_map, lines 154-161
param_map(key) ==
    CASE key = "house_type" -> "buildingType[]"
      [] key = "room_count" -> "roomCount[]"
      [] key = "price_min" -> "price[min]"
      [] key = "price_max" -> "price[max]"
      [] key = "size_min" -> "size[min]"
      [] key = "size_max" -> "size[max]"
      [] OTHER -> key

\* house_types, lines 162-167
HouseTypeNames == {"kerrostalo", "rivitalo", "paritalo", "omakotitalo"}
house_types(k) ==
    CASE k = "kerrostalo" -> <<1, 256>>
      [] k = "rivitalo" -> <<2>>
      [] k = "paritalo" -> <<64>>
      [] k = "omakotitalo" -> <<4, 8, 32, 128>>

\* One piece of the query string: '?', or 'key=value&'.
QMark == [key |-> "?", val |-> None, sep |-> ""]
Chunk(key, v) == [key |-> key, val |-> v, sep |-> "&"]

\* lines 178-179: for v in value: parameters += f'{key}={v}&'
ListChunks(key, v) == [i \in 1..Len(v.ints) |-> Chunk(key, IntV(v.ints[i]))]

\* The loop of lines 172-181 over the dict's keys in insertion order.
RECURSIVE BuildLoop(_, _, _)
BuildLoop(params, i, parameters) ==
    IF i > Len(ParamKeys) THEN parameters
    ELSE LET key == ParamKeys[i]
             value == params[key]
         IN  IF ~Truthy(value)
             THEN BuildLoop(params, i + 1, parameters)
             ELSE IF IsList(value)
             THEN BuildLoop(params, i + 1, parameters \o ListChunks(param_map(key), value))
             ELSE BuildLoop(params, i + 1, parameters \o <<Chunk(param_map(key), value)>>)

\* parameters[:-1], line 182: the last character is the '&' of the last
\* piece, or the '?' when nothing was added.
StripLastChar(parameters) ==
    LET n == Len(parameters)
    IN  IF parameters[n].sep = "&"
        THEN [parameters EXCEPT ![n].sep = ""]
        ELSE DropLast(parameters)

\* Variant of _params_builder that resolves the locations (line 169) before
\* it expands the house types (line 168).
_params_builder_lookup_first(params, ans) ==
    IF params["locations"].t # "names"
    THEN [error |-> "TypeError", asked |-> 0, url |-> <<>>]
    ELSE LET loc == location(params["locations"].names, ans)
         IN  IF loc.failed
             THEN [error |-> "TransportFailure", asked |-> loc.asked, url |-> <<>>]
             ELSE IF params["house_type"].t # "strs"
             THEN [error |-> "TypeError", asked |-> loc.asked, url |-> <<>>]
             ELSE IF \E i \in DOMAIN params["house_type"].strs :
                         params["house_type"].strs[i] \notin HouseTypeNames
             THEN [error |-> "KeyError", asked |-> loc.asked, url |-> <<>>]
             ELSE LET ht == params["house_type"].strs
                      codes == Concat([i \in DOMAIN ht |-> house_types(ht[i])])
                      built == [params EXCEPT !["house_type"] = IntList(codes),
                                              !["locations"] = StrV(loc.results)]
                  IN  [error |-> "", asked |-> loc.asked,
                       url |-> StripLastChar(BuildLoop(built, 1, <<QMark>>))]

\* _params_builder(**params), lines 152-182.  ans: the provider's answers to
\* the location lookups.  error: the exception raised, "" when none; asked:
\* the location lookups issued; url: the query string.
_params_builder(params, ans) ==
    IF params["house_type"].t # "strs"
    THEN [error |-> "TypeError", asked |-> 0, url |-> <<>>]            \* line 168, None
    ELSE IF \E i \in DOMAIN params["house_type"].strs :
                params["house_type"].strs[i] \notin HouseTypeNames
    THEN [error |-> "KeyError", asked |-> 0, url |-> <<>>]             \* line 168
    ELSE IF params["locations"].t # "names"
    THEN [error |-> "TypeError", asked |-> 0, url |-> <<>>]            \* line 169, None
    ELSE LET ht == params["house_type"].strs
             codes == Concat([i \in DOMAIN ht |-> house_types(ht[i])])
             loc == location(params["locations"].names, ans)
             built == [params EXCEPT !["house_type"] = IntList(codes),
                                     !["locations"] = StrV(loc.results)]
         IN  IF loc.failed
             THEN [error |-> "TransportFailure", asked |-> loc.asked, url |-> <<>>]
             ELSE [error |-> "", asked |-> loc.asked,
                   url |-> StripLastChar(BuildLoop(built, 1, <<QMark>>))]

\* ------------------------------------------------ headers and credentials

TokenFields == {"OTA-cuid", "OTA-loaded", "OTA-token"}
DefaultUA == <<"User-Agent", 0>>
NoHeaders == [h \in {} |-> DefaultUA]

\* The dict the ota property returns (lines 145-150) from the k-th answer of
\* the token endpoint; a header value is <<field, serial>>.
ota(k) == [h \in TokenFields |-> <<h, k>>]

\* Variant of the setter that keeps the token fields it already holds.
HeadersSetterKeepTokens(d) ==
    [h \in DOMAIN d \cup {"User-Agent"} \cup (DOMAIN headers \cap TokenFields) |->
        IF h \in DOMAIN headers \cap TokenFields THEN headers[h]
        ELSE IF h \in DOMAIN d THEN d[h] ELSE DefaultUA]

\* Variant of the setter that stores the default User-Agent alone.
HeadersSetterDefaultOnly(d) == [h \in {"User-Agent"} |-> DefaultUA]

\* headers.setter, lines 124-128: what self.__headers becomes on headers = d
HeadersSetter(d) ==
    [h \in DOMAIN d \cup {"User-Agent"} |-> IF h \in DOMAIN d THEN d[h] ELSE DefaultUA]

\* ------------------------------------------------------ query arguments

Kallio == <<"Kallio">>
EtuToolo == <<"Etu", " ", "Toolo">>

LocationChoices ==
    {None, NameList(<<>>), NameList(<<Kallio>>), NameList(<<EtuToolo, Kallio>>)}
HouseTypeChoices ==
    {None, StrList(<<>>), StrList(<<"kerrostalo", "rivitalo">>), StrList(<<"mokki">>)}

\* room counts and price/size bounds, drawn together
NoFilter ==
    [room_count |-> None, price_min |-> None, price_max |-> None,
     size_min |-> None, size_max |-> None]

FilterChoices ==
    { NoFilter,
      [room_count |-> IntList(<<>>), price_min |-> None, price_max |-> None,
       size_min |-> None, size_max |-> None],
      [room_count |-> IntList(<<2>>), price_min |-> IntV(0), price_max |-> IntV(9),
       size_min |-> None, size_max |-> None],
      [room_count |-> IntList(<<2, 3>>), price_min |-> IntV(1), price_max |-> IntV(9),
       size_min |-> IntV(2), size_max |-> IntV(8)] }

\* the keyword arguments of one query() call
Kwargs(loc, ht, f, limit) ==
    [locations |-> loc, house_type |-> ht, room_count |-> f.room_count,
     price_min |-> f.price_min, price_max |-> f.price_max,
     size_min |-> f.size_min, size_max |-> f.size_max, limit |-> IntV(limit)]

QuerySpecs ==
    { Kwargs(loc, ht, f, limit) :
        loc \in LocationChoices, ht \in HouseTypeChoices, f \in FilterChoices,
        limit \in 1..MaxLimit }

NamesOf(kw) ==
    IF kw.locations.t = "names"
    THEN {kw.locations.names[i] : i \in DOMAIN kw.locations.names}
    ELSE {}

\* params of query(), lines 60-66 and 81: the arguments, then the four fixed
\* entries, offset being the cursor.
QueryParams(kw, off) ==
    [k \in {ParamKeys[i] : i \in DOMAIN ParamKeys} |->
        CASE k = "limit" -> kw.limit
          [] k = "cardType" -> IntV(101)
          [] k = "offset" -> IntV(off)
          [] k = "sortBy" -> TextV(<<"published_sort_desc">>)
          [] OTHER -> kw[k]]

\* ----------------------------------------------------------- the scope

Req(kind, url, hdrs, ok, off, found, ncards) ==
    [kind |-> kind, url |-> url, hdrs |-> hdrs, ok |-> ok, offset |-> off,
     found |-> found, ncards |-> ncards]

NoData == [found |-> 0, ncards |-> 0]

\* the client before the with statement of fetch_houses
InitClient ==
    /\ pc = "start"
    /\ session = "none"
    /\ closes = 0
    /\ headers = NoHeaders
    /\ requests = <<>>
    /\ offset = 0
    /\ n_found = -1
    /\ data = NoData
    /\ idx = 0
    /\ yielded = <<>>
    /\ err = ""
    /\ assigned = NoHeaders
    /\ assigns = 0

\* no wrapper is constructed
NoSheet ==
    /\ sheet = <<>>
    /\ ids = {}
    /\ wrapper = "none"
    /\ initial = <<>>
    /\ calls = <<>>

\* a dict without keys
EmptyDict == [k \in {} |-> None]

\* _entry_builder was not called
Unbuilt == [error |-> "unbuilt", fields |-> EmptyDict]

\* no entry is normalized
NoEntry ==
    /\ entry = EmptyDict
    /\ record = Unbuilt

\* the decorated function is not called
NoSchedule ==
    /\ now = 0
    /\ timeouts = <<>>
    /\ running = 0
    /\ runs = <<>>
    /\ called = FALSE

Init ==
    /\ InitClient
    /\ cfg \in QuerySpecs
    /\ locdb \in [NamesOf(cfg) -> 0..MaxMatches]
    /\ NoSheet
    /\ NoSchedule
    /\ NoEntry

\* __exit__, lines 31-32, as the with statement of fetch_houses runs it
ExitScope ==
    /\ session' = "closed"
    /\ closes' = closes + 1

\* __enter__ left by the error of the credential fetch: line 28 raises,
\* __exit__ is not run
EnterFailed ==
    /\ pc' = "raised"
    /\ err' = "AuthenticationFailure"
    /\ session' = "open"
    /\ UNCHANGED <<headers, assigned, closes>>

UserRequests == Cardinality({i \in DOMAIN requests : requests[i].kind = "user"})

\* with OTClient() as c: (tasks.py line 39): __enter__, lines 26-29, with the
\* request of the ota property, lines 141-150
Enter ==
    /\ pc = "start"
    /\ \E ok \in BOOLEAN :
        /\ requests' = Append(requests, Req("user", <<>>, NoHeaders, ok, 0, 0, 0))
        /\ IF ok
           THEN /\ session' = "open"
                /\ headers' = HeadersSetter(ota(UserRequests + 1))
                /\ assigned' = ota(UserRequests + 1)
                /\ pc' = "entered"
                /\ UNCHANGED <<err, closes>>
           ELSE EnterFailed
    /\ UNCHANGED <<cfg, locdb, offset, n_found, data, idx, yielded, assigns>>
    /\ UNCHANGED <<sheetVars, schedVars, entryVars>>

\* The provider's answers to the lookups of one location() call: the index's
\* match counts, the failAt-th request failing (0: none fails).
LookupAnswers(names, failAt) ==
    [i \in DOMAIN names |-> IF i = failAt THEN -1 ELSE locdb[names[i]]]

\* The log entries of the first `asked` lookups of location(), lines 105-107
LookupRequests(names, ans, asked) ==
    [i \in 1..asked |->
        Req("location", <<QMark, [Chunk("query", TextV(names[i])) EXCEPT !.sep = ""]>>,
            headers, ans[i] >= 0, 0, 0, 0)]

\* Variant of FoundRead that reads `found` again from every page.
FoundReadEachPage == data.found

\* n_found once line 77 has run: it is read from the page at hand when the
\* first page is exhausted, and kept from then on.
FoundRead == IF n_found = -1 THEN data.found ELSE n_found

\* Variant of HasNext whose range includes its stop value.
HasNextInclusive == offset + cfg.limit.n <= FoundRead

\* range(limit, n_found, limit), lines 79-80, has a value after the cursor
HasNext == offset + cfg.limit.n < FoundRead

\* Variant of NextOffset that advances the cursor by one entry.
NextOffsetByOne == offset + 1

\* the next value of range(limit, n_found, limit), lines 80-81
NextOffset == offset + cfg.limit.n

\* Variant of PageExhausted that is already true before the last card.
PageAlmostExhausted == idx >= data.ncards - 1

\* the for loop over data['cards'], lines 74 and 83, has no further card
PageExhausted == idx = data.ncards

\* the page counts the provider may report after `prev` (-1: first page):
\* listings come and go one at a time between two pages
FoundAnswers(prev) ==
    IF prev < 0 THEN 0..MaxFound
    ELSE {f \in 0..MaxFound : f - prev \in {-1, 0, 1}}

\* Variant of PageFailure that swallows the error and goes on with an empty
\* page.
PageFailureSkipped(off) ==
    /\ pc' = "resumed"
    /\ err' = err
    /\ offset' = off
    /\ data' = NoData
    /\ idx' = 0
    /\ UNCHANGED <<session, closes>>

\* The request of _execute() fails, line 70, and nothing catches the error:
\* it leaves the generator, the for loop and the with block.
PageFailure(off) ==
    /\ pc' = "raised"
    /\ err' = "TransportFailure"
    /\ ExitScope
    /\ UNCHANGED <<offset, data, idx>>

\* The generator runs _execute(), lines 68-71: at offset 0 when it is first
\* resumed (lines 60-73), at the next value of the range once a page is
\* exhausted (lines 77-82).  An error leaves the generator and the with block.
Execute ==
    /\ \/ pc = "entered"
       \/ pc = "resumed" /\ PageExhausted /\ HasNext
    /\ LET first == pc = "entered"
           off == IF first THEN 0 ELSE NextOffset
           names == IF cfg.locations.t = "names" THEN cfg.locations.names ELSE <<>>
       IN  \E failAt \in 0..Len(names) :
             LET ans == LookupAnswers(names, failAt)
                 b == _params_builder(QueryParams(cfg, off), ans)
                 lookups == LookupRequests(names, ans, b.asked)
             IN  IF b.error # ""
                 THEN /\ requests' = requests \o lookups
                      /\ pc' = "raised"
                      /\ err' = b.error
                      /\ ExitScope
                      /\ n_found' = (IF first THEN n_found ELSE FoundRead)
                      /\ UNCHANGED <<offset, data, idx>>
                 ELSE \E ok \in BOOLEAN :
                        IF ok
                        THEN \E found \in FoundAnswers(IF first THEN -1 ELSE data.found) :
                             \E ncards \in 0..cfg.limit.n :
                             /\ requests' = requests \o lookups \o
                                    <<Req("cards", b.url, headers, TRUE, off, found, ncards)>>
                             /\ data' = [found |-> found, ncards |-> ncards]
                             /\ idx' = 0
                             /\ offset' = off
                             /\ n_found' = (IF first THEN n_found ELSE FoundRead)
                             /\ pc' = "resumed"
                             /\ UNCHANGED <<err, session, closes>>
                        ELSE /\ requests' = requests \o lookups \o
                                    <<Req("cards", b.url, headers, FALSE, off, 0, 0)>>
                             /\ n_found' = (IF first THEN n_found ELSE FoundRead)
                             /\ PageFailure(off)
    /\ UNCHANGED <<cfg, locdb, headers, yielded, assigned, assigns>>
    /\ UNCHANGED <<sheetVars, schedVars, entryVars>>

\* The generator yields the next card of the page, lines 74-75 and 83-84, and
\* the body of the for loop runs on it (tasks.py lines 40-41).  The entry
\* builder may raise on the card; the body may return or raise, and the body
\* of another caller's loop may leave it (break).
YieldEntry ==
    /\ pc = "resumed"
    /\ idx < data.ncards
    /\ \E out \in {"returns", "raises", "leaves", "bad_entry"} :
         CASE out = "returns" ->
                /\ yielded' = Append(yielded, <<offset, idx + 1>>)
                /\ idx' = idx + 1
                /\ UNCHANGED <<pc, err, session, closes>>
           [] out = "raises" ->
                /\ yielded' = Append(yielded, <<offset, idx + 1>>)
                /\ idx' = idx + 1
                /\ pc' = "raised"
                /\ err' = "ConsumerError"
                /\ ExitScope
           [] out = "leaves" ->
                /\ yielded' = Append(yielded, <<offset, idx + 1>>)
                /\ idx' = idx + 1
                /\ pc' = "abandoned"
                /\ err' = err
                /\ ExitScope
           [] out = "bad_entry" ->
                /\ pc' = "raised"
                /\ err' = "EntryError"
                /\ ExitScope
                /\ UNCHANGED <<yielded, idx>>
    /\ UNCHANGED <<cfg, locdb, headers, requests, offset, n_found, data, assigned, assigns>>
    /\ UNCHANGED <<sheetVars, schedVars, entryVars>>

\* The generator returns: the page is exhausted and the range has no further
\* value (lines 77-80); the for loop and the with block end.
Finish ==
    /\ pc = "resumed"
    /\ PageExhausted
    /\ ~HasNext
    /\ n_found' = FoundRead
    /\ pc' = "done"
    /\ ExitScope
    /\ UNCHANGED <<cfg, locdb, headers, requests, offset, data, idx, yielded, err,
                   assigned, assigns>>
    /\ UNCHANGED <<sheetVars, schedVars, entryVars>>

\* the dicts a caller assigns to c.headers
HeaderDicts ==
    { NoHeaders,
      [h \in {"User-Agent"} |-> <<"User-Agent", 1>>],
      [h \in {"OTA-token"} |-> <<"OTA-token", 0>>],
      [h \in TokenFields \cup {"User-Agent"} |-> <<h, 0>>] }

\* c.headers = d inside the with block (headers.setter, lines 124-128)
SetHeaders ==
    /\ pc \in {"entered", "resumed"}
    /\ assigns < MaxAssign
    /\ \E d \in HeaderDicts :
        /\ headers' = HeadersSetter(d)
        /\ assigned' = d
    /\ assigns' = assigns + 1
    /\ UNCHANGED <<pc, cfg, locdb, session, closes, requests, offset, n_found,
                   data, idx, yielded, err>>
    /\ UNCHANGED <<sheetVars, schedVars, entryVars>>

\* One scope of the client, used as the class docstring shows (lines 22-24)
\* and as fetch_houses does: entered, one query iterated, left.
Next == Enter \/ Execute \/ YieldEntry \/ Finish

Spec == Init /\ [][Next]_vars

\* A caller that also assigns c.headers inside the with block.
InitHeaders ==
    /\ Init
    /\ cfg.locations = NameList(<<Kallio>>)
    /\ cfg.house_type = StrList(<<>>)
    /\ cfg.room_count = None

NextHeaders == Next \/ SetHeaders

SpecHeaders == InitHeaders /\ [][NextHeaders]_vars

\* ------------------------------------------------------------ pagination

\* the listings requests issued so far, in order
CardsRequests == SelectSeq(requests, LAMBDA r : r.kind = "cards")

\* every page fetched so far reported the same `found`
StableFound ==
    \A i, j \in DOMAIN CardsRequests :
        CardsRequests[i].ok /\ CardsRequests[j].ok
            => CardsRequests[i].found = CardsRequests[j].found

CeilDiv(a, b) == (a + b - 1) \div b

\* C1 as stated: a fully consumed query under a stable found = F issues
\* exactly ceil(F / L) listings requests, for every F >= 0.
C1_CeilPagesFromZero ==
    (pc = "done" /\ StableFound)
        => Len(CardsRequests) = CeilDiv(CardsRequests[1].found, cfg.limit.n)

\* C1, amended: a fully consumed query under a stable found = F issues exactly
\* ceil(F / L) listings requests when F >= 1, and exactly one when F = 0.
C1_PageCount ==
    (pc = "done" /\ StableFound)
        => Len(CardsRequests) =
              (IF CardsRequests[1].found = 0 THEN 1
               ELSE CeilDiv(CardsRequests[1].found, cfg.limit.n))

C1_Witness ==
    /\ pc = "done"
    /\ StableFound
    /\ Len(CardsRequests) >= 2
    /\ CardsRequests[1].found % cfg.limit.n # 0

\* C2 as stated: after every page the choice between a further page and the
\* end compares offset + page size with the `found` of the page fetched last.
C2_FoundRereadEachPage ==
    /\ \A i \in DOMAIN CardsRequests :
          i > 1 => CardsRequests[i - 1].offset + cfg.limit.n < CardsRequests[i - 1].found
    /\ pc = "done" =>
          LET last == CardsRequests[Len(CardsRequests)]
          IN  last.offset + cfg.limit.n >= last.found

\* C2, amended: `found` is read once, from the first page; after every page
\* the choice between a further page and the end compares offset + page size
\* with that first value, whatever the later pages report.
C2_FoundReadOnce ==
    /\ n_found # -1 => CardsRequests # <<>> /\ n_found = CardsRequests[1].found
    /\ \A i \in DOMAIN CardsRequests :
          i > 1 => CardsRequests[i - 1].offset + cfg.limit.n < CardsRequests[1].found
    /\ pc = "done" =>
          LET last == CardsRequests[Len(CardsRequests)]
          IN  last.offset + cfg.limit.n >= CardsRequests[1].found

C2_Witness ==
    /\ pc = "done"
    /\ Len(CardsRequests) >= 3
    /\ CardsRequests[2].found < CardsRequests[1].found
    /\ CardsRequests[2].offset + cfg.limit.n >= CardsRequests[2].found

\* ------------------------------------------------------------- the scope

Left == pc \in {"done", "raised", "abandoned"}

\* C3: on every way out of the scope (the query completed, the iteration was
\* abandoned, an error was raised by the query, by the consumer or by the
\* acquisition itself) the connection the scope opened was closed exactly once.
C3_ClosedOnceOnEveryExit ==
    (Left /\ session # "none") => (session = "closed" /\ closes = 1)

\* the entries of the pages fetched by the first n listings requests
RECURSIVE EntriesOf(_, _)
EntriesOf(reqs, n) ==
    IF n = 0 THEN <<>>
    ELSE EntriesOf(reqs, n - 1) \o [i \in 1..reqs[n].ncards |-> <<reqs[n].offset, i>>]

\* C4: when the request of page k fails, the error reaches the consumer after
\* exactly the records of pages 1..k-1, and it is the last request of the
\* query: nothing is yielded or requested afterwards.
C4_PageFailureTerminates ==
    \A i \in DOMAIN requests :
        (requests[i].kind = "cards" /\ ~requests[i].ok) =>
            /\ i = Len(requests)
            /\ pc = "raised"
            /\ err = "TransportFailure"
            /\ yielded = EntriesOf(CardsRequests, Len(CardsRequests) - 1)

C4_Witness ==
    /\ Len(CardsRequests) = 3
    /\ ~CardsRequests[3].ok
    /\ Len(yielded) >= 2

\* ----------------------------------------------------- the query string

\* the parameter names of a query string
KeysOf(url) == {url[i].key : i \in DOMAIN url} \ {"?"}

HasParam(url, key, n) ==
    \E i \in DOMAIN url : url[i].key = key /\ url[i].val.t = "int" /\ url[i].val.n = n

FixedKeys == {"limit", "cardType", "offset", "sortBy"}

\* C5: the query string of every listings request, the first one at offset 0
\* included, holds limit (the page size), offset (the cursor), cardType=101
\* and sortBy=published_sort_desc.
C5_FixedParamsOnEveryRequest ==
    \A i \in DOMAIN CardsRequests :
        LET r == CardsRequests[i]
        IN  /\ HasParam(r.url, "limit", cfg.limit.n)
            /\ HasParam(r.url, "offset", r.offset)
            /\ HasParam(r.url, "cardType", 101)
            /\ \E j \in DOMAIN r.url :
                  r.url[j].key = "sortBy" /\ r.url[j].val = TextV(<<"published_sort_desc">>)

\* no filter is set: each is absent or an empty list
NoFilters(kw) ==
    /\ ~Truthy(kw.locations)
    /\ ~Truthy(kw.house_type)
    /\ ~Truthy(kw.room_count)
    /\ \A k \in {"price_min", "price_max", "size_min", "size_max"} : kw[k] = None

\* C6: with no filter set the encoder succeeds, and the query string holds the
\* four fixed parameters and no other.
C6_NoFiltersOnlyFixedParams ==
    NoFilters(cfg) =>
        /\ err \notin {"TypeError", "KeyError"}
        /\ \A i \in DOMAIN CardsRequests : KeysOf(CardsRequests[i].url) = FixedKeys

\* ------------------------------------------------------------ credentials

\* C7: the scope issues one credential request, first of all its requests,
\* and every later request carries the three token values of its answer.
C7_OneCredentialFetch ==
    /\ UserRequests <= 1
    /\ \A i \in DOMAIN requests :
          IF i = 1 THEN requests[i].kind = "user"
          ELSE /\ requests[i].kind # "user"
               /\ requests[1].ok
               /\ \A h \in TokenFields :
                     h \in DOMAIN requests[i].hdrs /\ requests[i].hdrs[h] = <<h, 1>>

C7_Witness ==
    /\ \E i \in DOMAIN requests : requests[i].kind = "location"
    /\ Len(CardsRequests) >= 2

\* C8 as stated: whatever is assigned to the headers inside the scope, the
\* header set keeps the token fields of the acquisition and a User-Agent.
C8_TokenFieldsSurvive ==
    pc \in {"entered", "resumed"} =>
        /\ "User-Agent" \in DOMAIN headers
        /\ \A h \in TokenFields : h \in DOMAIN headers /\ headers[h] = <<h, 1>>

\* C8, amended: after any sequence of assignments the header set is the dict
\* assigned last, with the default User-Agent added when that dict has none;
\* it always holds a User-Agent, and holds a token field only if the dict
\* assigned last does.
C8_HeadersAreLastAssigned ==
    pc \in {"entered", "resumed"} =>
        /\ DOMAIN headers = DOMAIN assigned \cup {"User-Agent"}
        /\ \A h \in DOMAIN assigned : headers[h] = assigned[h]
        /\ "User-Agent" \notin DOMAIN assigned => headers["User-Agent"] = DefaultUA

C8_Witness ==
    /\ assigns = 2
    /\ \E i \in DOMAIN CardsRequests :
          /\ "OTA-token" \notin DOMAIN CardsRequests[i].hdrs
          /\ CardsRequests[i].hdrs["User-Agent"] = <<"User-Agent", 1>>

\* ------------------------------------------------------- unknown categories

UnknownHouseType(kw) ==
    /\ kw.house_type.t = "strs"
    /\ \E i \in DOMAIN kw.house_type.strs : kw.house_type.strs[i] \notin HouseTypeNames

\* C9 as stated: a query with an unknown house-type name fails before any
\* network call: no credential, location or listings request was issued when
\* the error is raised.
C9_FailsBeforeAnyRequest ==
    err = "KeyError" => requests = <<>>

\* C9, amended: a query with an unknown house-type name fails (with a
\* KeyError) when the query is first resumed, before any location or listings
\* request; the credential request of the scope's entry is the only request
\* issued.
C9_FailsBeforeQueryRequests ==
    /\ UnknownHouseType(cfg) =>
          /\ pc \in {"start", "entered", "raised"}
          /\ \A i \in DOMAIN requests : requests[i].kind = "user"
          /\ pc = "raised" => err \in {"KeyError", "AuthenticationFailure"}
    /\ err = "KeyError" =>
          /\ UnknownHouseType(cfg)
          /\ Len(requests) = 1
          /\ requests[1].kind = "user"
          /\ yielded = <<>>

C9_Witness ==
    /\ err = "KeyError"
    /\ cfg.locations = NameList(<<EtuToolo, Kallio>>)

\* ------------------------------------------------------- lazy iteration

\* the pages the consumer received an entry from
PagesReceived == {yielded[i][1] : i \in DOMAIN yielded}

\* no request followed the entry at which the consumer left the loop
NothingAfterLeaving ==
    pc = "abandoned" =>
        yielded[Len(yielded)][1] = CardsRequests[Len(CardsRequests)].offset

\* every entry of the pages before the one requested last was yielded
EarlierPagesYielded ==
    LET earlier == EntriesOf(CardsRequests, Len(CardsRequests) - 1)
    IN  /\ Len(yielded) >= Len(earlier)
        /\ SubSeq(yielded, 1, Len(earlier)) = earlier

\* C13 as stated: the listings requests issued so far are at most one more
\* than the pages the consumer received an entry from, and no request follows
\* the abandonment of the iteration.
C13_OneAheadOfReceivedPages ==
    /\ Len(CardsRequests) <= Cardinality(PagesReceived) + 1
    /\ NothingAfterLeaving

\* C13, amended: a listings request is issued only once every entry of all
\* earlier pages was yielded, so the requests issued are at most one more than
\* the pages yielded in full, an empty page counting at once; and no request
\* follows the abandonment of the iteration.
C13_OneAheadOfYieldedPages ==
    /\ CardsRequests # <<>> => EarlierPagesYielded
    /\ NothingAfterLeaving

C13_Witness ==
    /\ pc = "abandoned"
    /\ Len(CardsRequests) = 3
    /\ CardsRequests[2].ncards = 0
    /\ Cardinality(PagesReceived) = 2

\* the location lookups issued so far
LocationRequests == SelectSeq(requests, LAMBDA r : r.kind = "location")

\* C15: a page fetch is one GET, the listings request: the locations are
\* resolved once, so a query over n names issues n lookups in all, however
\* many pages it fetches.
C15_LookupsOncePerQuery ==
    /\ Len(LocationRequests) <= Cardinality(DOMAIN cfg.locations.names)
    /\ \A i \in DOMAIN requests :
          (i > 1 /\ requests[i].kind = "cards" /\ requests[i].offset > 0)
              => requests[i - 1].kind = "cards"

\* C16: the offsets requested are 0, L, 2L, ...; all entries of a page are
\* yielded before the next page is requested; and a query consumed in full
\* yielded, once each and in order, the cards of every page it fetched.
C16_YieldsPagesInOrder ==
    /\ \A i \in DOMAIN CardsRequests : CardsRequests[i].offset = (i - 1) * cfg.limit.n
    /\ CardsRequests # <<>> => EarlierPagesYielded
    /\ Len(yielded) <= Len(EntriesOf(CardsRequests, Len(CardsRequests)))
    /\ yielded = SubSeq(EntriesOf(CardsRequests, Len(CardsRequests)), 1, Len(yielded))
    /\ pc = "done" => yielded = EntriesOf(CardsRequests, Len(CardsRequests))

C16_Witness ==
    /\ pc = "done"
    /\ Len(CardsRequests) >= 2
    /\ Len(yielded) >= 3

\* --------------------------------------------------- the location token

\* the elements a well-formed token holds: one per match, in input order
RECURSIVE MatchElements(_, _)
MatchElements(names, i) ==
    IF i > Len(names) THEN <<>>
    ELSE [j \in 1..locdb[names[i]] |-> Info(ProviderCard(j), names[i])]
             \o MatchElements(names, i + 1)

\* '[' e1 ',' e2 ... ',' en ']'
RECURSIVE Separated(_, _)
Separated(elems, i) ==
    IF i > Len(elems) THEN <<>>
    ELSE (IF i = 1 THEN <<>> ELSE <<Mark(",")>>) \o <<elems[i]>> \o Separated(elems, i + 1)

Bracketed(elems) == <<Mark("[")>> \o Separated(elems, 1) \o <<Mark("]")>>

\* C18: for every list of names, the empty one included, and every answer of
\* the provider, no match at all included, the token location() returns starts
\* with '[', ends with ']' and holds one [cardId,cardType,"name"] element per
\* match in input order, and nothing else.
C18_TokenWellFormed ==
    \A i \in DOMAIN CardsRequests :
        \A k \in DOMAIN CardsRequests[i].url :
            CardsRequests[i].url[k].key = "locations" =>
                CardsRequests[i].url[k].val.toks =
                    Bracketed(MatchElements(cfg.locations.names, 1))

\* ------------------------------------------------------------ SheetWrapper

\* A row of the worksheet: the header (HouseEntry.fields()), the row of an
\* entry, or a blank row of the grid.
HeaderRow == [kind |-> "header", id |-> 0]
DataRow(id) == [kind |-> "data", id |-> id]
BlankRow == [kind |-> "blank", id |-> 0]

\* Worksheet.get_all_records(): the rows below the first one, which gives
\* the keys; nothing when the sheet has no second row.
get_all_records(rows) ==
    IF Len(rows) <= 1 THEN <<>> ELSE SubSeq(rows, 2, Len(rows))

\* Worksheet.insert_row(row, index): the row is put at `index`, the rows from
\* there on move down; beyond the last row the grid is blank.
insert_row(rows, row, index) ==
    IF index <= Len(rows) + 1
    THEN SubSeq(rows, 1, index - 1) \o <<row>> \o SubSeq(rows, index, Len(rows))
    ELSE rows \o [i \in 1..(index - 1 - Len(rows)) |-> BlankRow] \o <<row>>

\* Variant of RecordIds that loads nothing.
RecordIdsNone(records) == {}

\* the loop of __init__, lines 31-32
RecordIds(records) == {records[i].id : i \in DOMAIN records}

\* the sheets a wrapper may be given: empty, or a header and entry rows
InitialSheets ==
    {<<>>} \cup
    { <<HeaderRow>> \o [i \in DOMAIN body |-> DataRow(body[i])] :
        body \in UNION {[1..n -> 1..MaxId] : n \in 0..MaxRows} }

InitSheet ==
    /\ InitClient
    /\ cfg = Kwargs(None, None, NoFilter, 1)
    /\ locdb = [n \in {} |-> 0]
    /\ sheet \in InitialSheets
    /\ ids = {}
    /\ wrapper = "none"
    /\ initial = <<>>
    /\ calls = <<>>
    /\ NoSchedule
    /\ NoEntry

\* SheetWrapper(sheet), lines 23-32
Construct ==
    /\ wrapper = "none"
    /\ initial' = sheet
    /\ LET records == get_all_records(sheet)
       IN  IF records = <<>>
           THEN \E ok \in BOOLEAN :
                  IF ok
                  THEN /\ sheet' = insert_row(sheet, HeaderRow, 1)
                       /\ ids' = {}
                       /\ wrapper' = "ready"
                  ELSE /\ wrapper' = "failed"
                       /\ UNCHANGED <<sheet, ids>>
           ELSE /\ ids' = RecordIds(records)
                /\ wrapper' = "ready"
                /\ UNCHANGED sheet
    /\ UNCHANGED calls
    /\ UNCHANGED <<clientVars, schedVars, entryVars>>

\* SheetWrapper.insert(entry), lines 44-50, for an entry of the given id; the
\* write of line 47 may fail, and the error leaves insert.
Insert(id) ==
    /\ wrapper = "ready"
    /\ Len(calls) < MaxInserts
    /\ IF id \notin ids
       THEN /\ ids' = ids \cup {id}
            /\ \E ok \in BOOLEAN :
                 IF ok
                 THEN /\ sheet' = insert_row(sheet, DataRow(id), Cardinality(ids') + 1)
                      /\ calls' = Append(calls, [id |-> id, outcome |-> "written"])
                 ELSE /\ sheet' = sheet
                      /\ calls' = Append(calls, [id |-> id, outcome |-> "failed"])
       ELSE /\ calls' = Append(calls, [id |-> id, outcome |-> "exists"])
            /\ UNCHANGED <<sheet, ids>>
    /\ UNCHANGED <<wrapper, initial>>
    /\ UNCHANGED <<clientVars, schedVars, entryVars>>

NextSheet == Construct \/ \E id \in 1..MaxId + 1 : Insert(id)

SpecSheet == InitSheet /\ [][NextSheet]_vars

\* the entry rows of the given id
RowsOf(rows, id) == {i \in DOMAIN rows : rows[i].kind = "data" /\ rows[i].id = id}

\* the calls of insert() that wrote (ran the write of) a row for the given id
WritesOf(id) == {i \in DOMAIN calls : calls[i].id = id /\ calls[i].outcome # "exists"}

\* C10: insert() writes a row if and only if the id is neither in the sheet at
\* construction nor the id of an earlier insert; so at most one row is ever
\* written per id, and the sheet gains no other row.
C10_WrittenIffNew ==
    wrapper = "ready" =>
        /\ \A i \in DOMAIN calls :
              (calls[i].outcome # "exists") <=>
                  /\ RowsOf(initial, calls[i].id) = {}
                  /\ \A j \in 1..(i - 1) : calls[j].id # calls[i].id
        /\ \A id \in 1..MaxId + 1 :
              /\ Cardinality(WritesOf(id)) <= 1
              /\ Cardinality(RowsOf(sheet, id)) =
                    Cardinality(RowsOf(initial, id)) +
                    Cardinality({i \in WritesOf(id) : calls[i].outcome = "written"})

C10_Witness ==
    /\ Len(calls) = 3
    /\ calls[1].outcome = "exists"
    /\ calls[2].outcome = "written"
    /\ calls[3].outcome = "exists"
    /\ calls[3].id = calls[2].id

\* C19: every identifier of the in-memory set has a row in the sheet, also
\* after a write that failed, so that a record whose write failed is not taken
\* for an existing one when it is inserted again.
C19_IdsHaveRows ==
    wrapper = "ready" =>
        /\ \A id \in ids : RowsOf(sheet, id) # {}
        /\ \A i \in DOMAIN calls :
              calls[i].outcome = "exists" =>
                  \A j \in 1..(i - 1) :
                      ~(calls[j].id = calls[i].id /\ calls[j].outcome = "failed")

\* the ids of the rows insert() wrote, in the order of the calls
WrittenIds == [i \in DOMAIN SelectSeq(calls, LAMBDA c : c.outcome = "written") |->
                  SelectSeq(calls, LAMBDA c : c.outcome = "written")[i].id]

\* C11: every row insert() writes is appended at the end of the sheet, after
\* all the rows already there, and the header stays the single first row:
\* blank grid rows apart, the sheet is the header, the entry rows it held at
\* construction, and the written rows in the order of their calls.
C11_AppendedAtEnd ==
    wrapper = "ready" =>
        SelectSeq(sheet, LAMBDA r : r.kind # "blank") =
            <<HeaderRow>> \o SubSeq(initial, 2, Len(initial))
                \o [i \in DOMAIN WrittenIds |-> DataRow(WrittenIds[i])]

\* ---------------------------------------------------------------- schedule

\* @schedule(interval=2), tasks.py line 34: dt, in hours
Interval == 2

\* s without its i-th element
RemoveAt(s, i) == SubSeq(s, 1, i - 1) \o SubSeq(s, i + 1, Len(s))

\* IOLoop.current().add_timeout(dt, inner), line 29
add_timeout == Append(timeouts, now + Interval)

InitSched ==
    /\ InitClient
    /\ cfg = Kwargs(None, None, NoFilter, 1)
    /\ locdb = [n \in {} |-> 0]
    /\ NoSheet
    /\ now = 0
    /\ timeouts = <<>>
    /\ running = 0
    /\ runs = <<>>
    /\ called = FALSE
    /\ NoEntry

\* fetch_houses(config, redirect=s.insert), sheets.py line 81: wrapper(),
\* lines 23-29, registers the timeout of the first run
Call ==
    /\ ~called
    /\ called' = TRUE
    /\ timeouts' = add_timeout
    /\ UNCHANGED <<now, running, runs>>
    /\ UNCHANGED <<clientVars, sheetVars, entryVars>>

\* an hour passes, on the loop or inside a run
Tick ==
    /\ now < MaxTime
    /\ now' = now + 1
    /\ UNCHANGED <<timeouts, running, runs, called>>
    /\ UNCHANGED <<clientVars, sheetVars, entryVars>>

\* Variant of InnerBegins that registers the next timeout before the run.
InnerBeginsRearmed(i) ==
    /\ timeouts' = Append(RemoveAt(timeouts, i), now + Interval)
    /\ running' = running + 1

\* The loop calls inner() for the i-th timeout: func(*args, **kwargs), line
\* 27, begins.
InnerBegins(i) ==
    /\ timeouts' = RemoveAt(timeouts, i)
    /\ running' = running + 1

\* The event loop, idle, runs the callback of a timeout that is due.
Fire ==
    /\ running = 0
    /\ \E i \in DOMAIN timeouts :
        /\ timeouts[i] <= now
        /\ InnerBegins(i)
    /\ UNCHANGED <<now, runs, called>>
    /\ UNCHANGED <<clientVars, sheetVars, entryVars>>

\* func returns and inner() goes on to wrapper(*args, **kwargs), line 28,
\* which registers the next timeout.
RunReturns ==
    /\ running > 0
    /\ running' = running - 1
    /\ runs' = Append(runs, "returned")
    /\ timeouts' = add_timeout
    /\ UNCHANGED <<now, called>>
    /\ UNCHANGED <<clientVars, sheetVars, entryVars>>

\* func raises: the error leaves inner() before line 28; the loop logs it
\* and goes on.
RunRaises ==
    /\ running > 0
    /\ running' = running - 1
    /\ runs' = Append(runs, "raised")
    /\ UNCHANGED <<now, timeouts, called>>
    /\ UNCHANGED <<clientVars, sheetVars, entryVars>>

NextSched == Call \/ Tick \/ Fire \/ RunReturns \/ RunRaises

SpecSched == InitSched /\ [][NextSched]_vars

\* C12: once the decorated function was called, every run, however it ended,
\* is followed by another: after each run a timeout for the next one is
\* pending, or the next run is in progress.
C12_EveryRunRearms ==
    called => (timeouts # <<>> \/ running > 0)

\* C20: at every moment at most one timeout is pending and at most one run is
\* in progress, and no timeout is pending while a run is in progress.
C20_OneTimeoutOrOneRun ==
    /\ Len(timeouts) + running <= 1
    /\ ~called => timeouts = <<>> /\ running = 0

C20_Witness ==
    /\ Len(runs) >= 2
    /\ Len(timeouts) = 1
    /\ timeouts[1] = now + Interval

\* -------------------------------------------------- OTClient._entry_builder

\* a float with one decimal, a timestamp string and a datetime
FloatV(whole, tenths) == [None EXCEPT !.t = "float", !.ints = <<whole, tenths>>]
TsV(parts, tail) == [None EXCEPT !.t = "ts", !.ints = parts, !.strs = <<tail>>]
DateTimeV(parts) == [None EXCEPT !.t = "datetime", !.ints = parts]
NameV(s) == [None EXCEPT !.t = "name", !.strs = <<s>>]

\* HouseEntry.__dataclass_fields__: the dataclass declares no default
Fields ==
    {"id", "url", "description", "rooms", "room_configuration", "price",
     "published", "size", "address", "district", "city", "country", "year",
     "building_type", "longitude", "latitude", "brand_name", "price_changed",
     "visits", "visits_weekly"}

\* d.get(k, default)
Get(d, k, default) == IF k \in DOMAIN d THEN d[k] ELSE default

\* {k: v for k, v in d.items() if k in keys}
Restrict(d, keys) == [k \in DOMAIN d \cap keys |-> d[k]]

\* d.update(e), and d[k] = v
Update(d, e) == e @@ d
Put(d, k, v) == (k :> v) @@ d

\* d after d.pop(k, default)
Pop(d, k) == [x \in DOMAIN d \ {k} |-> d[x]]

\* str.replace('\n', '')
RemoveNewlines(v) ==
    [v EXCEPT !.strs = SelectSeq(v.strs, LAMBDA piece : piece # "\n")]

\* _convert_ts, lines 203-205: strptime raises when the string does not match
\* '%Y-%m-%dT%H:%M:%SZ'
TsMatches(ts) == ts.t = "ts" /\ Len(ts.ints) = 6 /\ ts.strs = <<"Z">>
_convert_ts(ts) == IF ts.t = "none" THEN None ELSE DateTimeV(ts.ints)

\* HouseEntry(**data), line 201: every field is a required keyword
HouseEntry(d) ==
    IF DOMAIN d = Fields
    THEN [error |-> "", fields |-> d]
    ELSE [error |-> "TypeError", fields |-> EmptyDict]

\* lines 185-201
_entry_builder(e) ==
    LET d1 == Restrict(e, Fields)
        d2 == Update(d1, Get(e, "buildingData", EmptyDict))
        d3 == Put(Pop(d2, "description"), "description",
                  RemoveNewlines(Get(d2, "description", TextV(<<>>))))
        d4 == Put(Pop(d3, "buildingType"), "building_type",
                  Get(d3, "buildingType", None))
        d5 == Put(d4, "room_configuration", Get(e, "roomConfiguration", None))
        d6 == Put(d5, "brand_name", Get(e, "brand", [name |-> None])["name"])
        coordinates == Get(e, "coordinates", EmptyDict)
        d7 == Put(d6, "longitude", Get(coordinates, "longitude", None))
        d8 == Put(d7, "latitude", Get(coordinates, "latitude", None))
        price_changed == Get(e, "priceChanged", None)
        published == Get(e, "published", None)
    IN  IF price_changed.t # "none" /\ ~TsMatches(price_changed)
        THEN [error |-> "ValueError", fields |-> EmptyDict]
        ELSE IF published.t # "none" /\ ~TsMatches(published)
        THEN [error |-> "ValueError", fields |-> EmptyDict]
        ELSE HouseEntry(Put(Put(d8, "price_changed", _convert_ts(price_changed)),
                            "published", _convert_ts(published)))

\* the raw entries: what the provider may send
Stamp == TsV(<<2021, 5, 1, 10, 0, 0>>, "Z")
StampMillis == TsV(<<2021, 5, 1, 10, 0, 0>>, ".000Z")

FullCard ==
    [id |-> IntV(42), url |-> NameV("https://asunnot.oikotie.fi/42"),
     rooms |-> IntV(2), price |-> NameV("250 000"), size |-> IntV(54),
     address |-> NameV("Vaasankatu 1"), district |-> NameV("Kallio"),
     city |-> NameV("Helsinki"), country |-> NameV("Suomi"), year |-> IntV(1985),
     visits |-> IntV(100), visits_weekly |-> IntV(10)]

Omissions ==
    SUBSET {"url", "year", "visits_weekly"}
        \cup {DOMAIN FullCard \ {"id"}}

Optional(key, choices) == {EmptyDict} \cup {key :> v : v \in choices}

BuildingDatas ==
    {[year |-> IntV(1990)],
     [year |-> IntV(1990), buildingType |-> NameV("Kerrostalo")],
     [year |-> IntV(1990), newDevelopment |-> IntV(1)]}

RawEntries ==
    {Restrict(FullCard, DOMAIN FullCard \ omitted)
        @@ description @@ cardType @@ buildingData @@ coordinates
        @@ published @@ priceChanged @@ named :
            omitted \in Omissions,
            description \in Optional("description", {TextV(<<"Nice", "\n", "flat">>)}),
            cardType \in Optional("cardType", {IntV(100)}),
            buildingData \in Optional("buildingData", BuildingDatas),
            coordinates \in Optional("coordinates",
                {[longitude |-> FloatV(24, 9), latitude |-> FloatV(60, 2)]}),
            published \in Optional("published", {Stamp, StampMillis}),
            priceChanged \in Optional("priceChanged", {Stamp}),
            named \in {EmptyDict,
                       [roomConfiguration |-> NameV("2h+k"),
                        brand |-> [name |-> NameV("Kodit Oy")]]}}

InitEntry ==
    /\ InitClient
    /\ cfg = Kwargs(None, None, NoFilter, 1)
    /\ locdb = [n \in {} |-> 0]
    /\ NoSheet
    /\ NoSchedule
    /\ entry \in RawEntries
    /\ record = Unbuilt

\* entry = self._entry_builder(e), line 75
Build ==
    /\ record = Unbuilt
    /\ record' = _entry_builder(entry)
    /\ UNCHANGED entry
    /\ UNCHANGED <<clientVars, sheetVars, schedVars>>

NextEntry == Build

SpecEntry == InitEntry /\ [][NextEntry]_vars

\* the entry of the scenario, and the record it is said to become
ScenarioEntry ==
    [id |-> IntV(42), description |-> TextV(<<"Nice", "\n", "flat">>),
     buildingData |-> [year |-> IntV(1990)],
     coordinates |-> [longitude |-> FloatV(24, 9), latitude |-> FloatV(60, 2)],
     published |-> Stamp]

ScenarioRecord ==
    [id |-> IntV(42), description |-> TextV(<<"Nice", "flat">>),
     year |-> IntV(1990), longitude |-> FloatV(24, 9), latitude |-> FloatV(60, 2),
     published |-> DateTimeV(<<2021, 5, 1, 10, 0, 0>>)]
        @@ [k \in Fields |-> None]

\* C14: normalizing the entry {id: 42, description: "Nice\nflat",
\* buildingData: {year: 1990}, coordinates: {longitude: 24.9, latitude: 60.2},
\* published: "2021-05-01T10:00:00Z"} succeeds, with id 42, description
\* "Niceflat", year 1990, the coordinates, the publication instant, and null
\* for every attribute the entry does not give.
C14_ScenarioNormalizes ==
    (entry = ScenarioEntry /\ record # Unbuilt) =>
        /\ record.error = ""
        /\ record.fields = ScenarioRecord

\* C17: buildingData goes through the same attribute filter as the top level:
\* an entry whose buildingData holds a field that is no record attribute
\* normalizes as it would without that field, and a buildingData field that is
\* a record attribute replaces the top-level field of the same name.
C17_BuildingDataFiltered ==
    (record # Unbuilt /\ "buildingData" \in DOMAIN entry) =>
        LET known == Restrict(entry["buildingData"], Fields \cup {"buildingType"})
        IN  /\ record = _entry_builder(Put(entry, "buildingData", known))
            /\ record.error = "" =>
                  \A k \in DOMAIN known \cap {"year"} : record.fields[k] = known[k]

====
